---------------------------- MODULE Spec2Model ----------------------------
(***************************************************************************)
(* Model of scripts/generate_sitemap.py: the crawl loop (crawl_site), the  *)
(* URL helpers it calls (normalize_url, is_same_origin, is_asset_url,      *)
(* is_html_url, extract_links), the sitemap assembler (generate_sitemap,   *)
(* generate_single_sitemap, generate_sitemap_index) and main.              *)
(*                                                                         *)
(* A URL is a string, modelled as a sequence of one-character strings, so  *)
(* that parsing, unparsing, suffix tests and sorting are computed on the   *)
(* text as the code computes them.                                         *)
(***************************************************************************)
EXTENDS Integers, Sequences, FiniteSets, TLC

(***************************************************************************)
(* Bounds of the model.                                                    *)
(***************************************************************************)
\* longest exhaustively enumerated input string of normalize_url
MaxLen == 5
\* largest --max-pages value tried
MaxBudget == 4
\* most tags on one fetched page
MaxTags == 2
\* the cap MAX_URLS_PER_SITEMAP, scaled down from 50000
MaxCap == 2
\* most pieces a path given to the classification is put together from
MaxPieces == 3

(***************************************************************************)
(* Strings.                                                                *)
(***************************************************************************)
\* G at e: a name (G's parameter) for an intermediate result
With(e, G(_)) == G(e)

Min(S) == CHOOSE x \in S : \A y \in S : x <= y
Max(S) == CHOOSE x \in S : \A y \in S : x >= y

\* The characters the model's strings are made of, in code point order.
OrdTable == << "#", ".", "/", ":", ";", "?",
               "a", "b", "c", "d", "e", "f", "g", "h", "i", "j", "k", "l", "m",
               "n", "o", "p", "q", "r", "s", "t", "u", "v", "w", "x", "y", "z" >>
Alphabet == { OrdTable[i] : i \in 1..Len(OrdTable) }
Ord(c) == CHOOSE i \in 1..Len(OrdTable) : OrdTable[i] = c

\* s[lo:hi], s[i:] and s[:i] of Python, with 0-based indices as in the source
Slice(s, lo, hi) ==
    LET h == IF hi < Len(s) THEN hi ELSE Len(s)
    IN  IF lo >= h THEN << >> ELSE [ k \in 1..(h - lo) |-> s[lo + k] ]
From(s, i) == Slice(s, i, Len(s))
UpTo(s, i) == Slice(s, 0, i)

\* str.find(c, start): the 0-based index of the first c at or after start, or -1
Find(s, c, start) ==
    LET I == { i \in start..(Len(s) - 1) : s[i + 1] = c }
    IN  IF I = {} THEN -1 ELSE Min(I)
\* str.rfind(c)
RFind(s, c) ==
    LET I == { i \in 0..(Len(s) - 1) : s[i + 1] = c }
    IN  IF I = {} THEN -1 ELSE Max(I)
Contains(s, c) == Find(s, c, 0) >= 0
\* str.startswith / str.endswith / the substring test "sub in s"
StartsWith(s, pre) == Len(pre) <= Len(s) /\ UpTo(s, Len(pre)) = pre
EndsWith(s, suf) == Len(suf) <= Len(s) /\ From(s, Len(s) - Len(suf)) = suf
HasSub(s, sub) ==
    \E i \in 0..(Len(s) - Len(sub)) : Slice(s, i, i + Len(sub)) = sub

\* s < t for Python strings: lexicographic by code point
StrLess(s, t) ==
    \E k \in 1..(Len(t)) :
        /\ k <= Len(s) + 1
        /\ \A j \in 1..(k - 1) : s[j] = t[j]
        /\ IF k = Len(s) + 1 THEN TRUE ELSE Ord(s[k]) < Ord(t[k])

\* sorted(S) for a set of strings
RECURSIVE SortedSeq(_)
SortedSeq(S) ==
    IF S = {} THEN << >>
    ELSE LET m == CHOOSE x \in S : \A y \in S \ {x} : StrLess(x, y)
         IN  << m >> \o SortedSeq(S \ {m})

(***************************************************************************)
(* urllib.parse, as normalize_url, is_same_origin, is_asset_url,           *)
(* is_html_url and extract_links call it (CPython 3.11).  No string of the *)
(* model holds white space, control characters, upper case or brackets, so *)
(* the stripping, lower-casing and bracket checks of urlsplit are no-ops.  *)
(***************************************************************************)
HTTP == << "h", "t", "t", "p" >>
HTTPS == << "h", "t", "t", "p", "s" >>
\* uses_relative, uses_netloc and uses_params of urllib.parse, in the order
\* of the library's lists; 'svn+ssh' and 'git+ssh' are left out, no string
\* of the alphabet holds a "+"
uses_relative ==
    { << >>, << "f", "t", "p" >>, << "h", "t", "t", "p" >>,
      << "g", "o", "p", "h", "e", "r" >>, << "n", "n", "t", "p" >>,
      << "i", "m", "a", "p" >>, << "w", "a", "i", "s" >>,
      << "f", "i", "l", "e" >>, << "h", "t", "t", "p", "s" >>,
      << "s", "h", "t", "t", "p" >>, << "m", "m", "s" >>,
      << "p", "r", "o", "s", "p", "e", "r", "o" >>, << "r", "t", "s", "p" >>,
      << "r", "t", "s", "p", "s" >>, << "r", "t", "s", "p", "u" >>,
      << "s", "f", "t", "p" >>, << "s", "v", "n" >>, << "w", "s" >>,
      << "w", "s", "s" >> }
uses_netloc ==
    { << >>, << "f", "t", "p" >>, << "h", "t", "t", "p" >>,
      << "g", "o", "p", "h", "e", "r" >>, << "n", "n", "t", "p" >>,
      << "t", "e", "l", "n", "e", "t" >>, << "i", "m", "a", "p" >>,
      << "w", "a", "i", "s" >>, << "f", "i", "l", "e" >>,
      << "m", "m", "s" >>, << "h", "t", "t", "p", "s" >>,
      << "s", "h", "t", "t", "p" >>, << "s", "n", "e", "w", "s" >>,
      << "p", "r", "o", "s", "p", "e", "r", "o" >>, << "r", "t", "s", "p" >>,
      << "r", "t", "s", "p", "s" >>, << "r", "t", "s", "p", "u" >>,
      << "r", "s", "y", "n", "c" >>, << "s", "v", "n" >>,
      << "s", "f", "t", "p" >>, << "n", "f", "s" >>, << "g", "i", "t" >>,
      << "w", "s" >>, << "w", "s", "s" >> }
uses_params ==
    { << >>, << "f", "t", "p" >>, << "h", "d", "l" >>,
      << "p", "r", "o", "s", "p", "e", "r", "o" >>, << "h", "t", "t", "p" >>,
      << "i", "m", "a", "p" >>, << "h", "t", "t", "p", "s" >>,
      << "s", "h", "t", "t", "p" >>, << "r", "t", "s", "p" >>,
      << "r", "t", "s", "p", "s" >>, << "r", "t", "s", "p", "u" >>,
      << "s", "i", "p" >>, << "s", "i", "p", "s" >>, << "m", "m", "s" >>,
      << "s", "f", "t", "p" >>, << "t", "e", "l" >> }
Letters == { OrdTable[i] : i \in 7..Len(OrdTable) }
\* scheme_chars, as far as the alphabet goes (no digits, "+" or "-")
scheme_chars == Letters \cup { "." }

_splitnetloc(url, start) ==
    LET W == { Find(url, c, start) : c \in { "/", "?", "#" } } \ { -1 }
        delim == IF W = {} THEN Len(url) ELSE Min(W)
    IN  [ netloc |-> Slice(url, start, delim), rest |-> From(url, delim) ]

\* the scheme test at the head of urlsplit: url[:i] and url[i+1:] when url[:i]
\* spells a scheme, else the default scheme and the whole string
_splitscheme(url, scheme0) ==
    LET i == Find(url, ":", 0)
    IN  IF /\ i > 0
           /\ url[1] \in Letters
           /\ \A k \in 1..i : url[k] \in scheme_chars
        THEN [ scheme |-> UpTo(url, i), rest |-> From(url, i + 1) ]
        ELSE [ scheme |-> scheme0, rest |-> url ]

\* if url[:2] == '//': netloc, url = _splitnetloc(url, 2)
_netlocpart(url) ==
    IF UpTo(url, 2) = << "/", "/" >> THEN _splitnetloc(url, 2)
    ELSE [ netloc |-> << >>, rest |-> url ]

\* if c in url: url, tail = url.split(c, 1)
_cut(url, c) ==
    LET f == Find(url, c, 0)
    IN  IF f >= 0 THEN [ head |-> UpTo(url, f), tail |-> From(url, f + 1) ]
        ELSE [ head |-> url, tail |-> << >> ]

\* scheme0 is the default scheme, '' unless urljoin gives the base's
urlsplit(url0, scheme0) ==
    With(_splitscheme(url0, scheme0), LAMBDA sch :
    With(_netlocpart(sch.rest), LAMBDA nl :
    With(_cut(nl.rest, "#"), LAMBDA fr :
    With(_cut(fr.head, "?"), LAMBDA qu :
        [ scheme |-> sch.scheme, netloc |-> nl.netloc, path |-> qu.head,
          query |-> qu.tail, fragment |-> fr.tail ]))))

_splitparams(url) ==
    LET i == IF Contains(url, "/") THEN Find(url, ";", RFind(url, "/"))
             ELSE Find(url, ";", 0)
    IN  IF i < 0 THEN [ path |-> url, params |-> << >> ]
        ELSE [ path |-> UpTo(url, i), params |-> From(url, i + 1) ]

urlparse(url, scheme0) ==
    With(urlsplit(url, scheme0), LAMBDA sr :
    With(IF sr.scheme \in uses_params /\ Contains(sr.path, ";")
         THEN _splitparams(sr.path)
         ELSE [ path |-> sr.path, params |-> << >> ], LAMBDA sp :
        [ scheme |-> sr.scheme, netloc |-> sr.netloc, path |-> sp.path,
          params |-> sp.params, query |-> sr.query,
          fragment |-> sr.fragment ]))

urlunsplit(scheme, netloc, url0, query, fragment) ==
    With(IF \/ netloc # << >>
            \/ /\ scheme # << >>
               /\ scheme \in uses_netloc
               /\ UpTo(url0, 2) # << "/", "/" >>
         THEN << "/", "/" >> \o netloc \o
              (IF url0 # << >> /\ UpTo(url0, 1) # << "/" >>
               THEN << "/" >> \o url0 ELSE url0)
         ELSE url0, LAMBDA url1 :
    With(IF scheme # << >> THEN scheme \o << ":" >> \o url1 ELSE url1,
         LAMBDA url2 :
    With(IF query # << >> THEN url2 \o << "?" >> \o query ELSE url2,
         LAMBDA url3 :
        IF fragment # << >> THEN url3 \o << "#" >> \o fragment ELSE url3)))

urlunparse(scheme, netloc, url, params, query, fragment) ==
    urlunsplit(scheme, netloc,
               IF params # << >> THEN url \o << ";" >> \o params ELSE url,
               query, fragment)

(***************************************************************************)
(* The URL helpers of the script.                                          *)
(***************************************************************************)
normalize_url(url) ==
    With(urlparse(url, << >>), LAMBDA parsed :
        urlunparse(parsed.scheme, parsed.netloc, parsed.path, parsed.params,
                   parsed.query, << >>))

is_same_origin(url, base) ==
    urlparse(url, << >>).netloc = urlparse(base, << >>).netloc

asset_extensions ==
    { << ".", "p", "d", "f" >>, << ".", "j", "p", "g" >>,
      << ".", "j", "p", "e", "g" >>, << ".", "p", "n", "g" >>,
      << ".", "g", "i", "f" >>, << ".", "s", "v", "g" >>,
      << ".", "w", "e", "b", "p" >>, << ".", "i", "c", "o" >> }
non_html_extensions ==
    asset_extensions \cup
    { << ".", "c", "s", "s" >>, << ".", "j", "s" >>,
      << ".", "j", "s", "o", "n" >>, << ".", "x", "m", "l" >>,
      << ".", "t", "x", "t" >>, << ".", "z", "i", "p" >>, << ".", "g", "z" >> }

\* path.lower() is the path itself: the alphabet has no upper case
is_asset_url(url) ==
    LET path == urlparse(url, << >>).path
    IN  \E ext \in asset_extensions : EndsWith(path, ext)

is_html_url(url) ==
    LET path == urlparse(url, << >>).path
    IN  ~ \E ext \in non_html_extensions : EndsWith(path, ext)

(***************************************************************************)
(* urllib.parse.urljoin, which extract_links calls on every reference.     *)
(***************************************************************************)
\* str.split(c) and c.join(segs)
Split(s, c) ==
    LET seps == { i \in 0..(Len(s) - 1) : s[i + 1] = c }
        \* the 0-based index of the k-th separator; -1 and Len(s) around them
        sep(k) == IF k = 0 THEN -1
                  ELSE IF k = Cardinality(seps) + 1 THEN Len(s)
                  ELSE CHOOSE i \in seps :
                         Cardinality({ j \in seps : j < i }) = k - 1
    IN  [ k \in 1..(Cardinality(seps) + 1) |->
            Slice(s, sep(k - 1) + 1, sep(k)) ]
Join(segs, c) ==
    LET J[k \in 0..Len(segs)] ==
            IF k = 0 THEN << >>
            ELSE IF k = 1 THEN segs[1]
            ELSE J[k - 1] \o << c >> \o segs[k]
    IN  J[Len(segs)]
\* segments[1:-1] = filter(None, segments[1:-1])
FilterInner(segs) ==
    IF Len(segs) < 3 THEN segs
    ELSE << segs[1] >> \o
         SelectSeq(SubSeq(segs, 2, Len(segs) - 1), LAMBDA x : x # << >>) \o
         << segs[Len(segs)] >>
\* the loop over segments that drops "." and applies "..": resolved_path
\* after the first k segments
ResolveDots(segs) ==
    LET R[k \in 0..Len(segs)] ==
            IF k = 0 THEN << >>
            ELSE LET acc == R[k - 1]
                 IN  IF segs[k] = << ".", "." >>
                     THEN IF acc = << >> THEN << >>
                          ELSE SubSeq(acc, 1, Len(acc) - 1)
                     ELSE IF segs[k] = << "." >> THEN acc
                     ELSE Append(acc, segs[k])
    IN  R[Len(segs)]

\* base_parts: the base path's segments without a non-empty last one
BaseParts(bp) ==
    IF bp[Len(bp)] # << >> THEN SubSeq(bp, 1, Len(bp) - 1) ELSE bp
\* segments: of the reference alone if its path is absolute, else of both
Segments(bpath, upath) ==
    IF UpTo(upath, 1) = << "/" >> THEN Split(upath, "/")
    ELSE FilterInner(BaseParts(Split(bpath, "/")) \o Split(upath, "/"))
\* resolved_path, with the '' that a last segment "." or ".." leaves
Resolved(segments) ==
    ResolveDots(segments) \o
    (IF segments[Len(segments)] \in { << "." >>, << ".", "." >> }
     THEN << << >> >> ELSE << >>)
\* '/'.join(resolved_path) or '/'
ResolvedPath(bpath, upath) ==
    With(Join(Resolved(Segments(bpath, upath)), "/"), LAMBDA joined :
        IF joined = << >> THEN << "/" >> ELSE joined)

urljoin(base, url) ==
    IF base = << >> THEN url
    ELSE IF url = << >> THEN base
    ELSE
    With(urlparse(base, << >>), LAMBDA b :
    With(urlparse(url, b.scheme), LAMBDA u :
        IF u.scheme # b.scheme \/ u.scheme \notin uses_relative THEN url
        ELSE IF u.scheme \in uses_netloc /\ u.netloc # << >>
        THEN urlunparse(u.scheme, u.netloc, u.path, u.params, u.query,
                        u.fragment)
        ELSE IF u.path = << >> /\ u.params = << >>
        THEN urlunparse(u.scheme,
                        IF u.scheme \in uses_netloc THEN b.netloc
                        ELSE u.netloc,
                        b.path, b.params,
                        IF u.query = << >> THEN b.query ELSE u.query,
                        u.fragment)
        ELSE urlunparse(u.scheme,
                        IF u.scheme \in uses_netloc THEN b.netloc
                        ELSE u.netloc,
                        ResolvedPath(b.path, u.path),
                        u.params, u.query, u.fragment)))

(***************************************************************************)
(* Pages.  A parsed page is the set of its tags; a tag has a name and the  *)
(* attributes it carries (href, src: strings; rel: a set of tokens).       *)
(***************************************************************************)
Origin_h == HTTPS \o << ":", "/", "/", "h" >>
Origin_g == HTTPS \o << ":", "/", "/", "g" >>
Origin_http_h == HTTP \o << ":", "/", "/", "h" >>
Url_a == Origin_h \o << "/", "a" >>
Url_png == Origin_h \o << "/", "d", "/", "a", ".", "p", "n", "g" >>
Url_css == Origin_h \o << "/", "a", ".", "c", "s", "s" >>

PageTags ==
    { [ name |-> "a", attrs |-> [ href |-> << ".", ".", "/", "a" >> ] ],
      [ name |-> "a", attrs |-> [ href |-> << "#", "a" >> ] ],
      [ name |-> "a", attrs |-> [ href |-> Origin_http_h \o << "/", "a" >> ] ],
      [ name |-> "a", attrs |-> [ href |-> Origin_g \o << "/", "a" >> ] ],
      [ name |-> "a", attrs |-> [ href |-> Url_png ] ],
      [ name |-> "img", attrs |-> [ src |-> Url_png ] ],
      [ name |-> "img", attrs |-> [ src |-> Url_a ] ],
      [ name |-> "link", attrs |-> [ href |-> Url_a, rel |-> { "icon" } ] ],
      [ name |-> "link",
        attrs |-> [ href |-> Url_css, rel |-> { "stylesheet" } ] ] }

\* the pages a fetch may return: at most MaxTags tags of PageTags
Bodies == { b \in SUBSET PageTags : Cardinality(b) <= MaxTags }

Has(tag, attr) == attr \in DOMAIN tag.attrs

\* the three loops of extract_links over the parsed page
AnchorLinks(html, page_url) ==
    { n \in { normalize_url(urljoin(page_url, t.attrs.href)) :
                t \in { x \in html : x.name = "a" /\ Has(x, "href") } } :
        is_same_origin(n, page_url) }

\* tag.get('src') or tag.get('href'), with None as the empty string
SrcOrHref(t) ==
    IF t.attrs.src # << >> THEN t.attrs.src
    ELSE IF Has(t, "href") THEN t.attrs.href ELSE << >>

SrcLinks(html, page_url) ==
    { n \in { normalize_url(urljoin(page_url, SrcOrHref(t))) :
                t \in { x \in html : /\ x.name \in { "img", "link" }
                                     /\ Has(x, "src")
                                     /\ SrcOrHref(x) # << >> } } :
        is_same_origin(n, page_url) /\ is_asset_url(n) }

IconLinks(html, page_url) ==
    { n \in { normalize_url(urljoin(page_url, t.attrs.href)) :
                t \in { x \in html :
                          /\ x.name = "link"
                          /\ Has(x, "href")
                          /\ "icon" \in (IF Has(x, "rel") THEN x.attrs.rel
                                         ELSE {}) } } :
        is_same_origin(n, page_url) }

extract_links(html, page_url) ==
    AnchorLinks(html, page_url) \cup SrcLinks(html, page_url)
        \cup IconLinks(html, page_url)

(***************************************************************************)
(* State.                                                                  *)
(***************************************************************************)
VARIABLES
    base_url,      \* args.base_url
    max_pages,     \* args.max_pages
    dry_run,       \* args.dry_run
    pc,            \* where main is: "crawl", "main", "shards", "index", "done"
    to_visit,      \* crawl_site: the deque of pending URLs
    visited,       \* crawl_site: the set of visited URLs
    url_metadata,  \* crawl_site: url -> [lastmod, priority, changefreq]
    page_count,    \* crawl_site: the page counter
    fetch_count,   \* history: url -> the number of calls of fetch_url on it
    failed,        \* history: the URLs on which fetch_url returned None
    discovered,    \* history: the seed and every link extract_links returned
    visit_order,   \* history: the URLs added to visited, in that order
    enqueue_order, \* history: the URLs appended to to_visit, each at its
                   \* first append, in that order
    depth,         \* history: URL -> its link distance from the seed over
                   \* the links extract_links has returned so far: 0 for
                   \* the seed, and for a link of a page the least of its
                   \* depth so far and the depth of the page plus one
    built,         \* the XML documents built so far, in order
    files,         \* the files written by this run: part number -> document
    exit_code,     \* main's return value, -1 while it runs
    raised,        \* the exception that reached the handlers of main at
                   \* lines 424-429, None while there is none
    nin,           \* the input of a function applied on its own
    nout,          \* the results: the function applied once, twice, ...
    nslash         \* normalize_url of the input followed by "/"

cvars == << base_url, max_pages, dry_run, pc, to_visit, visited, url_metadata,
            page_count, fetch_count, failed, discovered, visit_order,
            enqueue_order, depth, built, files, exit_code, raised >>
nvars == << nin, nout, nslash >>
vars == << cvars, nvars >>

None == "None"
NoFiles == [ k \in {} |-> 0 ]

(***************************************************************************)
(* The fetcher's answers.                                                  *)
(***************************************************************************)
\* Last-Modified: no header, a well-formed HTTP date, a malformed one
LastModifiedHeaders == { None, "Wed, 21 Oct 2015 07:28:00 GMT", "yesterday" }
ContentTypes == { "text/html; charset=utf-8", "application/pdf" }

\* datetime.strptime(...).strftime(...) of lines 191-192; a header that
\* does not parse raises, and lastmod stays None
ParseLastModified(h) ==
    IF h = "Wed, 21 Oct 2015 07:28:00 GMT" THEN "2015-10-21T07:28:00+00:00"
    ELSE None

IsHtmlType(ct) == ct = "text/html; charset=utf-8"

(***************************************************************************)
(* crawl_site.                                                             *)
(***************************************************************************)
\* a classification that tests the asset rule before the path rules
ClassifyAssetFirst(url) ==
    With(urlparse(url, << >>).path, LAMBDA parsed_path :
        IF parsed_path = << "/" >> \/ parsed_path = << >>
        THEN [ priority |-> 10, changefreq |-> "daily" ]
        ELSE IF is_asset_url(url)
        THEN [ priority |-> 3, changefreq |-> "yearly" ]
        ELSE IF \/ HasSub(parsed_path, << "/", "d", "/" >>)
                \/ HasSub(parsed_path, << "/", "v", "i", "e", "w", "/" >>)
        THEN [ priority |-> 8, changefreq |-> "monthly" ]
        ELSE IF \/ HasSub(parsed_path,
                          << "/", "a", "g", "e", "n", "c", "y", "/" >>)
                \/ HasSub(parsed_path,
                          << "/", "c", "a", "t", "e", "g", "o", "r", "y", "/" >>)
        THEN [ priority |-> 7, changefreq |-> "weekly" ]
        ELSE [ priority |-> 5, changefreq |-> "monthly" ])

\* lines 196-213: priority (in tenths) and changefreq of a URL
Classify(url) ==
    With(urlparse(url, << >>).path, LAMBDA parsed_path :
        IF parsed_path = << "/" >> \/ parsed_path = << >>
        THEN [ priority |-> 10, changefreq |-> "daily" ]
        ELSE IF \/ HasSub(parsed_path, << "/", "d", "/" >>)
                \/ HasSub(parsed_path, << "/", "v", "i", "e", "w", "/" >>)
        THEN [ priority |-> 8, changefreq |-> "monthly" ]
        ELSE IF \/ HasSub(parsed_path,
                          << "/", "a", "g", "e", "n", "c", "y", "/" >>)
                \/ HasSub(parsed_path,
                          << "/", "c", "a", "t", "e", "g", "o", "r", "y", "/" >>)
        THEN [ priority |-> 7, changefreq |-> "weekly" ]
        ELSE IF is_asset_url(url)
        THEN [ priority |-> 3, changefreq |-> "yearly" ]
        ELSE [ priority |-> 5, changefreq |-> "monthly" ])

\* Every URL the crawl can come to: the seeds and whatever extract_links
\* returns for a page of such a URL.  extract_links adds links tag by tag, so
\* the page of all tags gives every link a page can give, and a URL that is
\* reached at all is reached within as many rounds as there are tags.
Seeds == { Origin_h \o << "/" >> }
RECURSIVE Reach(_, _)
Reach(S, n) ==
    IF n = 0 THEN S
    ELSE UNION { Reach(T, n - 1) :
                   T \in { S \cup UNION { extract_links(PageTags, u) :
                                            u \in S } } }
Universe ==
    Reach({ normalize_url(u) : u \in Seeds }, Cardinality(PageTags))

\* line 223, tabulated: the sets extract_links(response.text, current_url)
\* can be, over the pages a fetch of current_url may return
LinkSets ==
    [ u \in Universe |-> { extract_links(body, u) : body \in Bodies } ]

\* lines 186-194, tabulated: the values lastmod can get
LastMods == { ParseLastModified(h) : h \in LastModifiedHeaders }

\* a loop condition that is off by one
LoopCondInclusive(queue, count, max) == queue # << >> /\ count <= max

\* line 170: the loop condition
LoopCond(queue, count, max) == queue # << >> /\ count < max

\* a visited test that never finds the URL
AlreadyVisitedNever(url, seen) == FALSE

\* line 173: the visited test on the popped URL
AlreadyVisited(url, seen) == url \in seen

\* an enqueue test that drops what does not look like a page
ShouldEnqueuePagesOnly(link, seen) == link \notin seen /\ is_html_url(link)

\* line 225: the test before a link is appended
ShouldEnqueue(link, seen) == link \notin seen

\* the orders in which "for link in links" may run over the set links
Orders(S) ==
    { q \in [ 1..Cardinality(S) -> S ] :
        \A i, j \in 1..Cardinality(S) : q[i] = q[j] => i = j }

\* one more call of fetch_url on url
Fetched(count, url) ==
    [ u \in DOMAIN count \cup { url } |->
        IF u \notin DOMAIN count THEN 1
        ELSE IF u = url THEN count[u] + 1 ELSE count[u] ]

\* a skip that counts the popped URL as a page
LoopSkipCounts ==
    /\ pc = "crawl"
    /\ LoopCond(to_visit, page_count, max_pages)
    /\ AlreadyVisited(Head(to_visit), visited)
    /\ to_visit' = Tail(to_visit)
    /\ page_count' = page_count + 1
    /\ UNCHANGED << base_url, max_pages, dry_run, raised, pc, visited, url_metadata,
                    fetch_count, failed, discovered, visit_order,
                    enqueue_order, depth, built, files, exit_code, nvars >>

\* a skip that looks at the head of the queue and leaves it there
LoopSkipPeek ==
    /\ pc = "crawl"
    /\ LoopCond(to_visit, page_count, max_pages)
    /\ AlreadyVisited(Head(to_visit), visited)
    /\ to_visit' = Append(Tail(to_visit), Head(to_visit))
    /\ UNCHANGED << base_url, max_pages, dry_run, raised, pc, visited, url_metadata,
                    page_count, fetch_count, failed, discovered, visit_order,
                    enqueue_order, depth, built, files, exit_code, nvars >>

\* lines 173-174: the popped URL was visited already
LoopSkip ==
    /\ pc = "crawl"
    /\ LoopCond(to_visit, page_count, max_pages)
    /\ AlreadyVisited(Head(to_visit), visited)
    /\ to_visit' = Tail(to_visit)
    /\ UNCHANGED << base_url, max_pages, dry_run, raised, pc, visited, url_metadata,
                    page_count, fetch_count, failed, discovered, visit_order,
                    enqueue_order, depth, built, files, exit_code, nvars >>

\* a failed fetch that puts the URL back for a retry
LoopFetchFailRetry ==
    /\ pc = "crawl"
    /\ LoopCond(to_visit, page_count, max_pages)
    /\ ~ AlreadyVisited(Head(to_visit), visited)
    /\ to_visit' = Append(Tail(to_visit), Head(to_visit))
    /\ visited' = visited \cup { Head(to_visit) }
    /\ page_count' = page_count + 1
    /\ fetch_count' = Fetched(fetch_count, Head(to_visit))
    /\ failed' = failed \cup { Head(to_visit) }
    /\ visit_order' = Append(visit_order, Head(to_visit))
    /\ UNCHANGED << base_url, max_pages, dry_run, raised, pc, url_metadata,
                    discovered, enqueue_order, depth, built, files,
                    exit_code, nvars >>

\* lines 176-183: the fetch fails, fetch_url returns None
LoopFetchFail ==
    /\ pc = "crawl"
    /\ LoopCond(to_visit, page_count, max_pages)
    /\ ~ AlreadyVisited(Head(to_visit), visited)
    /\ to_visit' = Tail(to_visit)
    /\ visited' = visited \cup { Head(to_visit) }
    /\ page_count' = page_count + 1
    /\ fetch_count' = Fetched(fetch_count, Head(to_visit))
    /\ failed' = failed \cup { Head(to_visit) }
    /\ visit_order' = Append(visit_order, Head(to_visit))
    /\ UNCHANGED << base_url, max_pages, dry_run, raised, pc, url_metadata,
                    discovered, enqueue_order, depth, built, files,
                    exit_code, nvars >>

\* the links of order that were never appended to to_visit before
FirstAppends(order) ==
    SelectSeq(order, LAMBDA l : \A i \in 1..Len(enqueue_order) :
                                  enqueue_order[i] # l)

\* a successful fetch that puts the links at the front of the queue
LoopFetchOkDepthFirst ==
    /\ pc = "crawl"
    /\ LoopCond(to_visit, page_count, max_pages)
    /\ ~ AlreadyVisited(Head(to_visit), visited)
    /\ \E ct \in ContentTypes, links \in LinkSets[Head(to_visit)] :
        LET current_url == Head(to_visit)
            seen == visited \cup { current_url }
            c == Classify(current_url)
            extracts == is_html_url(current_url) /\ IsHtmlType(ct)
            fresh == { l \in links : ShouldEnqueue(l, seen) }
        IN  \* line 222: no links unless the URL and the answer look like HTML
            /\ extracts \/ links = {}
            /\ visited' = seen
            /\ page_count' = page_count + 1
            /\ fetch_count' = Fetched(fetch_count, current_url)
            /\ \E lastmod \in LastMods :
                 url_metadata' =
                   [ u \in DOMAIN url_metadata \cup { current_url } |->
                       IF u = current_url
                       THEN [ lastmod |-> lastmod,
                              priority |-> c.priority,
                              changefreq |-> c.changefreq ]
                       ELSE url_metadata[u] ]
            /\ discovered' = discovered \cup links
            /\ visit_order' = Append(visit_order, current_url)
            /\ depth' = [ u \in DOMAIN depth \cup links |->
                            IF u \notin links THEN depth[u]
                            ELSE IF u \notin DOMAIN depth
                            THEN depth[current_url] + 1
                            ELSE Min({ depth[u], depth[current_url] + 1 }) ]
            /\ \E order \in Orders(fresh) :
                 /\ to_visit' = order \o Tail(to_visit)
                 /\ enqueue_order' = enqueue_order \o FirstAppends(order)
    /\ UNCHANGED << base_url, max_pages, dry_run, raised, pc, failed, built, files,
                    exit_code, nvars >>

\* lines 176-226: the fetch succeeds with response r
LoopFetchOk ==
    /\ pc = "crawl"
    /\ LoopCond(to_visit, page_count, max_pages)
    /\ ~ AlreadyVisited(Head(to_visit), visited)
    /\ \E ct \in ContentTypes, links \in LinkSets[Head(to_visit)] :
        LET current_url == Head(to_visit)
            seen == visited \cup { current_url }
            c == Classify(current_url)
            extracts == is_html_url(current_url) /\ IsHtmlType(ct)
            fresh == { l \in links : ShouldEnqueue(l, seen) }
        IN  \* line 222: no links unless the URL and the answer look like HTML
            /\ extracts \/ links = {}
            /\ visited' = seen
            /\ page_count' = page_count + 1
            /\ fetch_count' = Fetched(fetch_count, current_url)
            /\ \E lastmod \in LastMods :
                 url_metadata' =
                   [ u \in DOMAIN url_metadata \cup { current_url } |->
                       IF u = current_url
                       THEN [ lastmod |-> lastmod,
                              priority |-> c.priority,
                              changefreq |-> c.changefreq ]
                       ELSE url_metadata[u] ]
            /\ discovered' = discovered \cup links
            /\ visit_order' = Append(visit_order, current_url)
            /\ depth' = [ u \in DOMAIN depth \cup links |->
                            IF u \notin links THEN depth[u]
                            ELSE IF u \notin DOMAIN depth
                            THEN depth[current_url] + 1
                            ELSE Min({ depth[u], depth[current_url] + 1 }) ]
            /\ \E order \in Orders(fresh) :
                 /\ to_visit' = Tail(to_visit) \o order
                 /\ enqueue_order' = enqueue_order \o FirstAppends(order)
    /\ UNCHANGED << base_url, max_pages, dry_run, raised, pc, failed, built, files,
                    exit_code, nvars >>

\* line 170 is false: lines 228-229, crawl_site returns
LoopExit ==
    /\ pc = "crawl"
    /\ ~ LoopCond(to_visit, page_count, max_pages)
    /\ pc' = "main"
    /\ UNCHANGED << base_url, max_pages, dry_run, raised, to_visit, visited,
                    url_metadata, page_count, fetch_count, failed,
                    discovered, visit_order, enqueue_order, depth, built,
                    files, exit_code, nvars >>

(***************************************************************************)
(* generate_sitemap, generate_single_sitemap, generate_sitemap_index.      *)
(***************************************************************************)
MAX_URLS_PER_SITEMAP == MaxCap

\* f"{priority:.1f}" for the priorities crawl_site assigns
FormatPriority(p) ==
    CASE p = 10 -> "1.0" [] p = 8 -> "0.8" [] p = 7 -> "0.7"
      [] p = 5 -> "0.5" [] p = 3 -> "0.3"

\* lines 253-270: one <url> element; url_metadata.get(url, {}) is empty for
\* a URL that has no metadata
UrlElement(url, meta) ==
    LET has == url \in DOMAIN meta
    IN  [ loc |-> url,
          children |->
            (IF has /\ meta[url].lastmod # None
             THEN << << "lastmod", meta[url].lastmod >> >> ELSE << >>) \o
            (IF has
             THEN << << "changefreq", meta[url].changefreq >> >> ELSE << >>) \o
            (IF has
             THEN << << "priority", FormatPriority(meta[url].priority) >> >>
             ELSE << >>) ]

\* lines 250-274: the <urlset> document of a list of URLs
UrlsetDoc(urls, meta) ==
    [ root |-> "urlset",
      urls |-> [ i \in 1..Len(urls) |-> UrlElement(urls[i], meta) ] ]

\* chunks whose slices run one entry too far
ChunksOverlap(urls, chunk_size) ==
    [ k \in 1..((Len(urls) + chunk_size - 1) \div chunk_size) |->
        Slice(urls, (k - 1) * chunk_size,
              (k - 1) * chunk_size + chunk_size + 1) ]

\* line 300: [urls[i:i + chunk_size] for i in range(0, len(urls), chunk_size)]
Chunks(urls, chunk_size) ==
    [ k \in 1..((Len(urls) + chunk_size - 1) \div chunk_size) |->
        Slice(urls, (k - 1) * chunk_size, (k - 1) * chunk_size + chunk_size) ]

\* lines 317-328: the <sitemapindex> document; each <loc> is scheme://netloc
\* of urls[0] followed by the part's file name
IndexDoc(urls, nparts) ==
    LET base == urlparse(urls[1], << >>)
    IN  [ root |-> "sitemapindex",
          sitemaps |-> [ k \in 1..nparts |->
                           [ base |-> base.scheme \o << ":", "/", "/" >>
                                        \o base.netloc,
                             part |-> k,
                             lastmod |-> "utcnow" ] ] ]

\* line 235
sorted_urls == SortedSeq(visited)

\* lines 280-291 and 338-346: a write succeeds; or os.makedirs or open
\* raises, and there is no file; or tree.write raises after open has
\* created the file, and the file is left unfinished. The exception is
\* caught at line 289 or 344.
WriteOutcomes == { "written", "not opened", "unfinished" }

\* what a file holds that open has created and tree.write has not finished:
\* a part of the document's text, which is no XML document
Unfinished == [ root |-> "unfinished" ]

\* file number k is written: 0 is output_path, k > 0 is part k
WriteFile(k, doc) ==
    files' = [ f \in DOMAIN files \cup { k } |->
                 IF f = k THEN doc ELSE files[f] ]

\* the with-block of lines 284-285 and 339-340 on file number k, with the
\* outcome w
Write(k, doc, w) ==
    CASE w = "written" -> WriteFile(k, doc)
      [] w = "unfinished" -> WriteFile(k, Unfinished)
      [] w = "not opened" -> UNCHANGED files

\* crawl_site has returned (urls, url_metadata) to main: its other locals,
\* and the history kept about them, are gone
Returned ==
    /\ to_visit' = << >>
    /\ page_count' = 0
    /\ fetch_count' = NoFiles
    /\ failed' = {}
    /\ discovered' = {}
    /\ visit_order' = << >>
    /\ enqueue_order' = << >>
    /\ depth' = NoFiles

\* lines 410-412
MainNoUrls ==
    /\ pc = "main"
    /\ visited = {}
    /\ pc' = "done"
    /\ exit_code' = 1
    /\ Returned
    /\ UNCHANGED << base_url, max_pages, dry_run, raised, visited, url_metadata,
                    built, files, nvars >>

\* a single sitemap whose dry run returns before the document is built
GenerateSingleDryEarly ==
    /\ pc = "main"
    /\ visited # {}
    /\ Len(sorted_urls) <= MAX_URLS_PER_SITEMAP
    /\ LET doc == UrlsetDoc(sorted_urls, url_metadata)
       IN  IF dry_run
           THEN /\ exit_code' = 0
                /\ UNCHANGED << built, files >>
           ELSE /\ built' = Append(built, doc)
                /\ \E w \in WriteOutcomes :
                     /\ Write(0, doc, w)
                     /\ exit_code' = IF w = "written" THEN 0 ELSE 1
    /\ pc' = "done"
    /\ Returned
    /\ UNCHANGED << base_url, max_pages, dry_run, raised, visited, url_metadata,
                    nvars >>

\* lines 237-239, 245-291 and 417-422: the single sitemap
GenerateSingle ==
    /\ pc = "main"
    /\ visited # {}
    /\ Len(sorted_urls) <= MAX_URLS_PER_SITEMAP
    /\ LET doc == UrlsetDoc(sorted_urls, url_metadata)
       IN  /\ built' = Append(built, doc)
           /\ IF dry_run
              THEN /\ exit_code' = 0
                   /\ UNCHANGED files
              ELSE \E w \in WriteOutcomes :
                     /\ Write(0, doc, w)
                     /\ exit_code' = IF w = "written" THEN 0 ELSE 1
    /\ pc' = "done"
    /\ Returned
    /\ UNCHANGED << base_url, max_pages, dry_run, raised, visited, url_metadata,
                    nvars >>

\* parts that go on to the next part after a write that failed
GeneratePartGoesOn ==
    /\ \/ pc = "main" /\ visited # {}
          /\ Len(sorted_urls) > MAX_URLS_PER_SITEMAP
       \/ pc = "shards"
    /\ LET chunks == Chunks(sorted_urls, MAX_URLS_PER_SITEMAP)
           idx == Len(built) + 1
           doc == UrlsetDoc(chunks[idx], url_metadata)
           next == IF idx = Len(chunks) THEN "index" ELSE "shards"
       IN  /\ built' = Append(built, doc)
           /\ pc' = next
           /\ UNCHANGED exit_code
           /\ IF dry_run
              THEN UNCHANGED files
              ELSE \E w \in WriteOutcomes : Write(idx, doc, w)
    /\ Returned
    /\ UNCHANGED << base_url, max_pages, dry_run, raised, visited, url_metadata,
                    nvars >>

\* lines 240-242 and 298-314: the next part of a sitemap index
GeneratePart ==
    /\ \/ pc = "main" /\ visited # {}
          /\ Len(sorted_urls) > MAX_URLS_PER_SITEMAP
       \/ pc = "shards"
    /\ LET chunks == Chunks(sorted_urls, MAX_URLS_PER_SITEMAP)
           idx == Len(built) + 1
           doc == UrlsetDoc(chunks[idx], url_metadata)
           next == IF idx = Len(chunks) THEN "index" ELSE "shards"
       IN  /\ built' = Append(built, doc)
           /\ IF dry_run
              THEN /\ pc' = next
                   /\ UNCHANGED << files, exit_code >>
              ELSE \E w \in WriteOutcomes :
                     /\ Write(idx, doc, w)
                     /\ IF w = "written"
                        THEN /\ pc' = next
                             /\ UNCHANGED exit_code
                        ELSE /\ pc' = "done"
                             /\ exit_code' = 1
    /\ Returned
    /\ UNCHANGED << base_url, max_pages, dry_run, raised, visited, url_metadata,
                    nvars >>

\* lines 316-346 and 417-422: the index document
GenerateIndex ==
    /\ pc = "index"
    /\ LET doc == IndexDoc(sorted_urls, Len(built))
       IN  /\ built' = Append(built, doc)
           /\ IF dry_run
              THEN /\ exit_code' = 0
                   /\ UNCHANGED files
              ELSE \E w \in WriteOutcomes :
                     /\ Write(0, doc, w)
                     /\ exit_code' = IF w = "written" THEN 0 ELSE 1
    /\ pc' = "done"
    /\ Returned
    /\ UNCHANGED << base_url, max_pages, dry_run, raised, visited, url_metadata,
                    nvars >>

\* the file the assembler writes next, and the document it writes to it
NextWrite ==
    IF pc = "index"
    THEN << 0, IndexDoc(sorted_urls, Len(built)) >>
    ELSE IF pc = "main" /\ Len(sorted_urls) <= MAX_URLS_PER_SITEMAP
    THEN << 0, UrlsetDoc(sorted_urls, url_metadata) >>
    ELSE << Len(built) + 1,
            UrlsetDoc(Chunks(sorted_urls, MAX_URLS_PER_SITEMAP)[Len(built) + 1],
                      url_metadata) >>

\* what an interrupt leaves of the file that was being written: nothing
\* when it comes outside the with-block of lines 284-285 or 339-340, the
\* unfinished file when it comes inside, the whole file when it comes
\* after
InterruptedWrite ==
    \/ UNCHANGED files
    \/ /\ ~ dry_run
       /\ pc \in { "shards", "index" } \/ (pc = "main" /\ visited # {})
       /\ \E w \in { "unfinished", "written" } :
            Write(NextWrite[1], NextWrite[2], w)

\* an interrupt that is handled as any other exception, at lines 427-429
InterruptGeneric ==
    /\ pc # "done"
    /\ pc' = "done"
    /\ exit_code' = 1
    /\ raised' = "KeyboardInterrupt"
    /\ Returned
    /\ visited' = {}
    /\ url_metadata' = NoFiles
    /\ built' = << >>
    /\ InterruptedWrite
    /\ UNCHANGED << base_url, max_pages, dry_run, nvars >>

\* lines 424-426: KeyboardInterrupt, raised anywhere inside the try of main;
\* the stack is unwound, only the files on disk remain
Interrupt ==
    /\ pc # "done"
    /\ pc' = "done"
    /\ exit_code' = 130
    /\ raised' = "KeyboardInterrupt"
    /\ Returned
    /\ visited' = {}
    /\ url_metadata' = NoFiles
    /\ built' = << >>
    /\ InterruptedWrite
    /\ UNCHANGED << base_url, max_pages, dry_run, nvars >>

\* lines 427-429: an exception that nothing below main catches, raised in
\* crawl_site: session.get raises something that is no RequestException
\* (line 108; fetch_url catches RequestException only), or urlparse raises
\* ValueError (lines 68, 165). In the assembler every statement that can
\* fail is inside the try of lines 280-291 or 338-346.
MainException ==
    /\ pc = "crawl"
    /\ pc' = "done"
    /\ exit_code' = 1
    /\ raised' = "Exception"
    /\ Returned
    /\ visited' = {}
    /\ url_metadata' = NoFiles
    /\ UNCHANGED << base_url, max_pages, dry_run, built, files, nvars >>

(***************************************************************************)
(* The run of main.                                                        *)
(***************************************************************************)
Init ==
    /\ base_url \in Seeds
    /\ max_pages \in 0..MaxBudget
    /\ dry_run \in BOOLEAN
    /\ pc = "crawl"
    /\ to_visit = << normalize_url(base_url) >>
    /\ visited = {}
    /\ url_metadata = NoFiles
    /\ page_count = 0
    /\ fetch_count = NoFiles
    /\ failed = {}
    /\ discovered = { normalize_url(base_url) }
    /\ visit_order = << >>
    /\ enqueue_order = << normalize_url(base_url) >>
    /\ depth = [ u \in { normalize_url(base_url) } |-> 0 ]
    /\ built = << >>
    /\ files = NoFiles
    /\ exit_code = -1
    /\ raised = None
    /\ nin = << >>
    /\ nout = << >>
    /\ nslash = << >>

CrawlStep == LoopSkip \/ LoopFetchFail \/ LoopFetchOk \/ LoopExit

Next ==
    \/ LoopSkip
    \/ LoopFetchFail
    \/ LoopFetchOk
    \/ LoopExit
    \/ MainNoUrls
    \/ GenerateSingle
    \/ GeneratePart
    \/ GenerateIndex
    \/ Interrupt
    \/ MainException

Spec == Init /\ [][Next]_vars

FairSpec == Spec /\ WF_vars(CrawlStep)

(***************************************************************************)
(* normalize_url as a function: it is applied to an input string, to its   *)
(* own result, and to the input followed by "/".                           *)
(***************************************************************************)
NormChars == { "a", ":", "/", "?", "#", ";" }
NormPrefixes == { << >>, HTTPS \o << ":" >>, HTTPS \o << ":", "/", "/" >> }
NormInputs ==
    { p \o s : p \in NormPrefixes,
               s \in UNION { [ 1..n -> NormChars ] : n \in 0..MaxLen } }

NormInit ==
    /\ nin \in NormInputs
    /\ nout = << >>
    /\ nslash = << >>
    /\ base_url = << >>
    /\ max_pages = 0
    /\ dry_run = TRUE
    /\ pc = "done"
    /\ to_visit = << >>
    /\ visited = {}
    /\ url_metadata = NoFiles
    /\ page_count = 0
    /\ fetch_count = NoFiles
    /\ failed = {}
    /\ discovered = {}
    /\ visit_order = << >>
    /\ enqueue_order = << >>
    /\ depth = NoFiles
    /\ built = << >>
    /\ files = NoFiles
    /\ exit_code = 0
    /\ raised = None

\* normalize_url(nin), then normalize_url of that
NormApply ==
    /\ Len(nout) < 2
    /\ nslash = << >>
    /\ nout' = Append(nout, normalize_url(IF nout = << >> THEN nin
                                          ELSE nout[Len(nout)]))
    /\ UNCHANGED << nin, nslash, cvars >>

\* normalize_url(nin) and normalize_url(nin + "/")
NormSlash ==
    /\ nout = << >>
    /\ nslash = << >>
    /\ nslash' = << normalize_url(nin), normalize_url(nin \o << "/" >>) >>
    /\ UNCHANGED << nin, nout, cvars >>

NormNext == NormApply \/ NormSlash

SpecNorm == NormInit /\ [][NormNext]_vars

(***************************************************************************)
(* The classification of lines 196-213 as a function: it is applied to the *)
(* URLs whose text after the origin is put together from a few pieces.     *)
(***************************************************************************)
\* no run of main: the variables of the crawl and the assembler at rest
NoRun ==
    /\ base_url = << >>
    /\ max_pages = 0
    /\ dry_run = TRUE
    /\ pc = "done"
    /\ to_visit = << >>
    /\ visited = {}
    /\ url_metadata = NoFiles
    /\ page_count = 0
    /\ fetch_count = NoFiles
    /\ failed = {}
    /\ discovered = {}
    /\ visit_order = << >>
    /\ enqueue_order = << >>
    /\ depth = NoFiles
    /\ built = << >>
    /\ files = NoFiles
    /\ exit_code = 0
    /\ raised = None

ClassPieces ==
    { << "/" >>, << "/", "a" >>, << "/", "d", "/" >>,
      << "/", "v", "i", "e", "w", "/" >>,
      << "/", "a", "g", "e", "n", "c", "y", "/" >>,
      << "/", "c", "a", "t", "e", "g", "o", "r", "y", "/" >>,
      << ".", "p", "n", "g" >>, << "?" >> }
RECURSIVE Concat(_)
Concat(q) == IF q = << >> THEN << >> ELSE Head(q) \o Concat(Tail(q))
ClassInputs ==
    { Origin_h \o Concat(q) :
        q \in UNION { [ 1..n -> ClassPieces ] : n \in 0..MaxPieces } }

ClassInit ==
    /\ nin \in ClassInputs
    /\ nout = << >>
    /\ nslash = << >>
    /\ NoRun

\* lines 196-213 on current_url = nin
ClassApply ==
    /\ nout = << >>
    /\ nout' = << Classify(nin) >>
    /\ UNCHANGED << nin, nslash, cvars >>

ClassNext == ClassApply

SpecClass == ClassInit /\ [][ClassNext]_vars

(***************************************************************************)
(* extract_links as a function of a parsed page and the URL of the page.   *)
(***************************************************************************)
LinksInputs == { << html, u >> : html \in Bodies, u \in Universe }

LinksInit ==
    /\ nin \in LinksInputs
    /\ nout = << >>
    /\ nslash = << >>
    /\ NoRun

\* extract_links(html, page_url)
LinksApply ==
    /\ nout = << >>
    /\ nout' = << extract_links(nin[1], nin[2]) >>
    /\ UNCHANGED << nin, nslash, cvars >>

LinksNext == LinksApply

SpecLinks == LinksInit /\ [][LinksNext]_vars

(***************************************************************************)
(* Properties.                                                             *)
(***************************************************************************)
Range(q) == { q[i] : i \in DOMAIN q }
Count(u, q) == Cardinality({ i \in DOMAIN q : q[i] = u })
CeilDiv(n, c) == (n + c - 1) \div c
Crawling == pc \in { "crawl", "main" }

\* C1: each canonical URL is fetched at most once in a crawl run: fetch_url
\* is called on the visited URLs and on none of them twice, whatever the
\* pages link to and however often a URL sits in the pending queue.
NoRefetch ==
    /\ \A u \in DOMAIN fetch_count : fetch_count[u] = 1
    /\ Crawling => DOMAIN fetch_count = visited

\* a URL that was fetched is pending again
NoRefetchWitness ==
    /\ pc = "crawl"
    /\ \E u \in visited : u \in Range(to_visit) /\ fetch_count[u] = 1

\* C2: the number of distinct URLs visited (fetched, with or without
\* success) never exceeds max_pages; a crawl that has come to more than
\* max_pages URLs halts with exactly max_pages of them visited; a budget of
\* 0 fetches nothing.
BudgetRespected ==
    /\ Cardinality(visited) <= max_pages
    /\ Cardinality(DOMAIN fetch_count) <= max_pages
    /\ (pc = "main" /\ Cardinality(discovered) > max_pages)
         => Cardinality(visited) = max_pages
    /\ max_pages = 0 => (visited = {} /\ fetch_count = NoFiles)

\* the crawl has halted on its budget with more URLs discovered
BudgetRespectedWitness ==
    /\ pc = "main"
    /\ max_pages >= 2
    /\ Cardinality(discovered) > max_pages
    /\ Cardinality(visited) = max_pages

\* C3: a link is admitted only if its scheme, host and port are the seed's:
\* no URL that is pending, visited or written to a sitemap differs from the
\* seed in scheme or in netloc.
SameOriginAsSeed(u) ==
    /\ urlparse(u, << >>).scheme = urlparse(base_url, << >>).scheme
    /\ urlparse(u, << >>).netloc = urlparse(base_url, << >>).netloc
SameOriginAdmission ==
    /\ \A u \in Range(to_visit) \cup visited : SameOriginAsSeed(u)
    /\ \A k \in DOMAIN files :
         files[k].root = "urlset" =>
           \A i \in DOMAIN files[k].urls : SameOriginAsSeed(files[k].urls[i].loc)

\* C4: a URL whose fetch failed is skipped: it is fetched once and never
\* again, it is never appended to the queue afterwards, the step that fails
\* extracts no links and goes on with the rest of the queue, and the URL is
\* no key of url_metadata.
FetchFailureSkipped ==
    /\ [](\A u \in failed :
            /\ u \in visited
            /\ fetch_count[u] = 1
            /\ u \notin DOMAIN url_metadata)
    /\ [][/\ (failed' # failed /\ failed' # {}) =>
                /\ discovered' = discovered
                /\ to_visit' = Tail(to_visit)
                /\ url_metadata' = url_metadata
                /\ pc' = "crawl"
          /\ \A u \in failed \cap failed' :
                Count(u, to_visit') <= Count(u, to_visit)]_vars

\* a fetch has failed, pages were fetched, and the crawl has gone on to its end
FetchFailureSkippedWitness ==
    /\ pc = "main"
    /\ failed # {}
    /\ Cardinality(DOMAIN url_metadata) >= 2

\* C5: after a complete run the <loc> values written to the sitemap, or to
\* all its parts, are the keys of url_metadata, each exactly once.
WrittenLocs(k) == [ i \in DOMAIN files[k].urls |-> files[k].urls[i].loc ]
UrlsetFiles == { k \in DOMAIN files : files[k].root = "urlset" }
LocsAreMetadataKeys ==
    (pc = "done" /\ exit_code = 0 /\ ~ dry_run) =>
        /\ UNION { Range(WrittenLocs(k)) : k \in UrlsetFiles }
             = DOMAIN url_metadata
        /\ \A u \in DOMAIN url_metadata :
             Cardinality({ << k, i >> \in UrlsetFiles \X (1..Cardinality(visited)) :
                             /\ i \in DOMAIN WrittenLocs(k)
                             /\ WrittenLocs(k)[i] = u }) = 1

\* C6: with n URLs and the cap c, n <= c gives one sitemap document and no
\* index; n > c gives ceil(n/c) parts and then one index; the parts are
\* consecutive runs of c entries (the last may be shorter) of the sorted
\* URLs, no part has more than c entries, no URL is in two parts, and the
\* parts hold the visited set.
PartLocs(k) == [ i \in DOMAIN built[k].urls |-> built[k].urls[i].loc ]
ChunkingCorrect ==
    (pc = "done" /\ exit_code = 0) =>
        LET n == Cardinality(visited)
            c == MAX_URLS_PER_SITEMAP
            parts == CeilDiv(n, c)
        IN  IF n <= c
            THEN /\ Len(built) = 1
                 /\ built[1].root = "urlset"
                 /\ Len(built[1].urls) = n
                 /\ Range(PartLocs(1)) = visited
                 /\ \A i, j \in 1..n :
                      i < j => StrLess(PartLocs(1)[i], PartLocs(1)[j])
            ELSE /\ Len(built) = parts + 1
                 /\ built[parts + 1].root = "sitemapindex"
                 /\ Len(built[parts + 1].sitemaps) = parts
                 /\ \A k \in 1..parts :
                      /\ built[k].root = "urlset"
                      /\ Len(built[k].urls) <= c
                      /\ Len(built[k].urls) =
                           (IF k < parts THEN c ELSE n - (parts - 1) * c)
                 /\ UNION { Range(PartLocs(k)) : k \in 1..parts } = visited
                 /\ \A k, l \in 1..parts :
                      \A i \in DOMAIN PartLocs(k), j \in DOMAIN PartLocs(l) :
                        (k < l \/ (k = l /\ i < j))
                          => StrLess(PartLocs(k)[i], PartLocs(l)[j])

\* three URLs under a cap of two: a full part, a part of one, and the index
ChunkingCorrectWitness ==
    /\ pc = "done"
    /\ exit_code = 0
    /\ Cardinality(visited) > MAX_URLS_PER_SITEMAP
    /\ Len(built) = CeilDiv(Cardinality(visited), MAX_URLS_PER_SITEMAP) + 1
    /\ Len(built[Len(built) - 1].urls) < MAX_URLS_PER_SITEMAP

\* C7: a crawl that halts below its budget is closed under discovery: the
\* seed is visited, every link extract_links returned for a fetched page is
\* visited, and the queue is empty.
ClosedUnderDiscovery ==
    (pc = "main" /\ page_count < max_pages) =>
        /\ normalize_url(base_url) \in visited
        /\ discovered \subseteq visited
        /\ to_visit = << >>

\* a crawl of three URLs that ends below the budget
ClosedUnderDiscoveryWitness ==
    /\ pc = "main"
    /\ page_count < max_pages
    /\ Cardinality(discovered) >= 3
    /\ discovered = visited

\* C8: with every fetch returning, the crawl loop ends; it ends only when
\* the queue is empty or page_count is max_pages, and it runs no iteration
\* once that holds; popping a visited URL does not count.
CrawlTerminates ==
    /\ <>(pc # "crawl")
    /\ [](pc = "main" => (to_visit = << >> \/ page_count = max_pages))
    /\ [](Crawling => page_count = Cardinality(visited))
    /\ [][(pc = "crawl" /\ (to_visit = << >> \/ page_count = max_pages))
            => pc' # "crawl"]_vars

\* the loop is about to pop a URL that it has visited
CrawlTerminatesWitness ==
    /\ pc = "crawl"
    /\ page_count < max_pages
    /\ to_visit # << >>
    /\ Head(to_visit) \in visited

\* C9: normalize_url strips one trailing slash from a path other than "/":
\* for a URL u without query or fragment whose path is neither empty nor
\* ends in "/", normalize_url(u + "/") is normalize_url(u).
NonRoot(u) ==
    /\ ~ Contains(u, "?") /\ ~ Contains(u, "#") /\ ~ Contains(u, ";")
    /\ urlparse(u, << >>).path # << >>
    /\ ~ EndsWith(u, << "/" >>)
TrailingSlashStripped ==
    (nslash # << >> /\ NonRoot(nin)) => nslash[2] = nslash[1]

\* C10: normalize_url is idempotent and its result has no fragment.
NormalizeIdempotent ==
    /\ Len(nout) >= 1 => ~ Contains(nout[1], "#")
    /\ Len(nout) = 2 => nout[2] = nout[1]

\* C11: the classification is decided by the path alone and by the first
\* rule that matches, in the order root, /d/ or /view/, /agency/ or
\* /category/, asset extension, default; an asset under /d/ gets 0.8 and
\* monthly; the priority is within 0.0..1.0 and changefreq is one of the
\* seven values of the sitemap protocol.
ClassRules(path) ==
    << << path \in { << >>, << "/" >> }, 10, "daily" >>,
       << \E seg \in { << "d" >>, << "v", "i", "e", "w" >> } :
            HasSub(path, << "/" >> \o seg \o << "/" >>), 8, "monthly" >>,
       << \E seg \in { << "a", "g", "e", "n", "c", "y" >>,
                       << "c", "a", "t", "e", "g", "o", "r", "y" >> } :
            HasSub(path, << "/" >> \o seg \o << "/" >>), 7, "weekly" >>,
       << \E ext \in asset_extensions : EndsWith(path, ext), 3, "yearly" >>,
       << TRUE, 5, "monthly" >> >>
FirstRule(path) ==
    CHOOSE k \in 1..5 :
        /\ ClassRules(path)[k][1]
        /\ \A j \in 1..(k - 1) : ~ ClassRules(path)[j][1]
ChangeFreqs ==
    { "always", "hourly", "daily", "weekly", "monthly", "yearly", "never" }
ClassifiedByFirstRule ==
    nout # << >> =>
        LET path == urlparse(nin, << >>).path
            rule == ClassRules(path)[FirstRule(path)]
        IN  /\ nout[1].priority = rule[2]
            /\ nout[1].changefreq = rule[3]
            /\ nout[1].priority \in 0..10
            /\ nout[1].changefreq \in ChangeFreqs

\* an asset under /d/ has been classified as a document page
ClassifiedByFirstRuleWitness ==
    /\ nout # << >>
    /\ is_asset_url(nin)
    /\ HasSub(urlparse(nin, << >>).path, << "/", "d", "/" >>)
    /\ nout[1] = [ priority |-> 8, changefreq |-> "monthly" ]

\* C12: a crawl that fetched no URL with success, so that url_metadata is
\* empty, ends the run with a failure exit code and without a sitemap file.
ZeroUrlsIsFailure ==
    (pc = "done" /\ raised = None /\ url_metadata = NoFiles) =>
        /\ exit_code = 1
        /\ files = NoFiles

\* the number of the file whose write has failed, when the last document
\* built is the one that was not written
FailedAt ==
    IF built[Len(built)].root = "urlset"
       /\ Cardinality(visited) > MAX_URLS_PER_SITEMAP
    THEN Len(built) ELSE 0

\* C13: a write that fails ends the whole run with exit code 1: a run that
\* ends with 0 has written every document it built; the step that builds a
\* document and leaves no file or an unfinished file of it ends the run
\* with 1; and after it the files are the parts written before it and at
\* most the unfinished file, without any later part and, when a part has
\* failed, without the index.
WriteFailureIsFailure ==
    /\ []((pc = "done" /\ exit_code = 0 /\ ~ dry_run) =>
            /\ DOMAIN files = 0..(Len(built) - 1)
            /\ files[0] = built[Len(built)]
            /\ \A k \in 1..(Len(built) - 1) : files[k] = built[k])
    /\ []((pc = "done" /\ exit_code = 1 /\ raised = None /\ visited # {}) =>
            /\ ~ dry_run
            /\ \A k \in 1..(Len(built) - 1) :
                 k \in DOMAIN files /\ files[k] = built[k]
            /\ DOMAIN files \subseteq 1..(Len(built) - 1) \cup { FailedAt }
            /\ FailedAt \in DOMAIN files => files[FailedAt] = Unfinished)
    /\ [][(/\ ~ dry_run
           /\ built' # << >>
           /\ built' # built
           /\ files' = files \/ Unfinished \in Range(files'))
            => (exit_code' = 1 /\ pc' = "done")]_vars

\* the first part is written, the write of the second has failed and has
\* left an unfinished file
WriteFailureIsFailureWitness ==
    /\ pc = "done"
    /\ exit_code = 1
    /\ raised = None
    /\ ~ dry_run
    /\ Len(built) = 2
    /\ DOMAIN files = { 1, 2 }
    /\ files[1] = built[1]
    /\ files[2] = Unfinished

\* the documents of a finished assembly, as the crawl result alone fixes
\* them: one urlset when the URLs fit, else the parts of at most
\* MAX_URLS_PER_SITEMAP consecutive sorted URLs followed by the index
ExpectedDocs ==
    LET urls == SortedSeq(visited)
        n == Len(urls)
        parts == CeilDiv(n, MAX_URLS_PER_SITEMAP)
        part(k) == [ root |-> "urlset",
                     urls |-> [ i \in 1..Min({ MAX_URLS_PER_SITEMAP,
                                              n - (k - 1) * MAX_URLS_PER_SITEMAP })
                                  |-> UrlElement(
                                        urls[(k - 1) * MAX_URLS_PER_SITEMAP + i],
                                        url_metadata) ] ]
    IN  IF n <= MAX_URLS_PER_SITEMAP
        THEN << part(1) >>
        ELSE [ k \in 1..(parts + 1) |->
                 IF k <= parts THEN part(k) ELSE IndexDoc(urls, parts) ]

\* C14: a dry run and a writing run build the same documents from the same
\* crawl result: the documents of a run that ends with 0 are fixed by the
\* visited URLs and their metadata alone (entries, classification, single
\* or index, partition), during the assembly they are a prefix of these,
\* a dry run writes no file and a writing run writes what it built.
DryRunEquivalent ==
    /\ (pc = "done" /\ exit_code = 0) => built = ExpectedDocs
    /\ (pc \in { "shards", "index" }) =>
          /\ Len(built) < Len(ExpectedDocs)
          /\ \A k \in 1..Len(built) : built[k] = ExpectedDocs[k]
    /\ dry_run => files = NoFiles
    /\ (~ dry_run /\ pc = "done" /\ exit_code = 0) =>
          /\ files[0] = ExpectedDocs[Len(ExpectedDocs)]
          /\ \A k \in 1..(Len(ExpectedDocs) - 1) : files[k] = ExpectedDocs[k]

\* a dry run has built two parts and the index and has written nothing
DryRunEquivalentWitness ==
    /\ pc = "done"
    /\ dry_run
    /\ exit_code = 0
    /\ Len(built) = 3
    /\ built[3].root = "sitemapindex"
    /\ files = NoFiles

\* the names of the child elements of a <url> element, after <loc>
ChildNames(e) == { e.children[j][1] : j \in 1..Len(e.children) }

\* C15: every <url> element of every urlset document, built or written,
\* has a <priority> and a <changefreq> child, and has a <lastmod> child
\* exactly when a last modification date was recorded for its URL.
EveryEntryClassified ==
    \A d \in 1..Len(built) :
        built[d].root = "urlset" =>
            \A i \in 1..Len(built[d].urls) :
                LET e == built[d].urls[i]
                IN  /\ "priority" \in ChildNames(e)
                    /\ "changefreq" \in ChildNames(e)
                    /\ "lastmod" \in ChildNames(e) <=>
                         /\ e.loc \in DOMAIN url_metadata
                         /\ url_metadata[e.loc].lastmod # None

\* C16: an interrupt ends the run with exit code 130, which no other end
\* of a run gives: a run that an interrupt has ended has exit code 130, a
\* run with exit code 130 was ended by an interrupt, every other end gives
\* 0 or 1; as long as the crawl runs nothing is built or written, and an
\* interrupt that comes while the crawl runs leaves no document and no
\* file.
InterruptIsDistinct ==
    /\ [](pc = "crawl" => (built = << >> /\ files = NoFiles))
    /\ [](raised = "KeyboardInterrupt" => (pc = "done" /\ exit_code = 130))
    /\ [](exit_code = 130 => raised = "KeyboardInterrupt")
    /\ []((pc = "done" /\ raised # "KeyboardInterrupt") =>
            exit_code \in { 0, 1 })
    /\ [][(pc = "crawl" /\ raised' = "KeyboardInterrupt") =>
            (built' = << >> /\ files' = NoFiles)]_vars

\* an interrupt has ended a writing run with 130 and no file
InterruptIsDistinctWitness ==
    /\ pc = "done"
    /\ raised = "KeyboardInterrupt"
    /\ exit_code = 130
    /\ ~ dry_run
    /\ files = NoFiles

\* C17: the pending queue holds no URL twice and no URL that is in the
\* visited set.
QueueDeduplicated ==
    /\ \A i, j \in 1..Len(to_visit) : to_visit[i] = to_visit[j] => i = j
    /\ \A i \in 1..Len(to_visit) : to_visit[i] \notin visited

\* C18: the queue is first in, first out, and the crawl is breadth-first:
\* the URLs are visited in the order of their first append to the queue,
\* the link distance of a URL from the seed, over the links extracted so
\* far, never changes once it has one, the distances of the visited URLs
\* never decrease along the order of the visits, and no visited URL is
\* farther from the seed than a discovered URL that is not visited yet.
BreadthFirst ==
    /\ [](pc = "crawl" =>
            /\ Range(visit_order) = visited
            /\ Len(visit_order) <= Len(enqueue_order)
            /\ \A i \in 1..Len(visit_order) :
                 visit_order[i] = enqueue_order[i]
            /\ \A i, j \in 1..Len(visit_order) :
                 i <= j => depth[visit_order[i]] <= depth[visit_order[j]]
            /\ \A u \in visited, v \in discovered \ visited :
                 depth[u] <= depth[v])
    /\ [][(pc = "crawl" /\ pc' = "crawl") =>
            \A u \in DOMAIN depth : depth'[u] = depth[u]]_vars

\* three URLs were visited, the last one two links away from the seed
BreadthFirstWitness ==
    /\ pc = "crawl"
    /\ Len(visit_order) >= 3
    /\ depth[visit_order[Len(visit_order)]] = 2
    /\ depth[visit_order[2]] = 1

\* url is what an anchor of the page refers to
FromAnchor(url, html, page) ==
    \E t \in html :
        /\ t.name = "a"
        /\ Has(t, "href")
        /\ normalize_url(urljoin(page, t.attrs.href)) = url

\* url is what an image or an icon link of the page refers to
FromImageOrIcon(url, html, page) ==
    \E t \in html :
        \/ /\ t.name = "img"
           /\ Has(t, "src")
           /\ normalize_url(urljoin(page, t.attrs.src)) = url
        \/ /\ t.name = "link"
           /\ Has(t, "rel")
           /\ "icon" \in t.attrs.rel
           /\ Has(t, "href")
           /\ normalize_url(urljoin(page, t.attrs.href)) = url

\* C19: every URL extract_links returns has the origin of the page, and is
\* either a candidate page (is_html_url) that an anchor refers to or an
\* asset (is_asset_url) that an image or an icon link refers to.
ExtractedAreCandidates ==
    nout # << >> =>
        \A url \in nout[1] :
            /\ is_same_origin(url, nin[2])
            /\ \/ FromAnchor(url, nin[1], nin[2]) /\ is_html_url(url)
               \/ FromImageOrIcon(url, nin[1], nin[2]) /\ is_asset_url(url)

\* C20: as long as the crawl loop runs, and when it has ended, the page
\* counter is the size of the visited set and the keys of url_metadata are
\* the visited URLs whose fetch did not fail; a step of the loop removes
\* no URL from the visited set and leaves every metadata entry as it is.
FrontierInvariant ==
    /\ [](Crawling =>
            /\ page_count = Cardinality(visited)
            /\ DOMAIN url_metadata \subseteq visited
            /\ DOMAIN url_metadata = visited \ failed)
    /\ [][(pc = "crawl" /\ pc' \in { "crawl", "main" }) =>
            /\ visited \subseteq visited'
            /\ \A u \in DOMAIN url_metadata :
                 /\ u \in DOMAIN url_metadata'
                 /\ url_metadata'[u] = url_metadata[u]]_vars

\* three URLs were visited, the fetch of one of them failed, and a copy of
\* a visited URL is still in the queue
FrontierInvariantWitness ==
    /\ pc = "crawl"
    /\ page_count = 3
    /\ Cardinality(DOMAIN url_metadata) = 2
    /\ failed # {}
    /\ to_visit # << >>
    /\ Head(to_visit) \in visited

=============================================================================
